---------------------------- MODULE Spec2Model ----------------------------
(***************************************************************************)
(* Model of the privileged command execution core of the Arch config tool: *)
(*   core/command_executor.py  CommandExecutor, CommandQueue               *)
(*   gui/main_window.py        MainWindow.add_command_to_history           *)
(* Strings are sequences of one-character strings, so that lower(),        *)
(* strip(), split(), rstrip() and '\n'.join() are computed, not assumed.   *)
(***************************************************************************)
EXTENDS Integers, Sequences, FiniteSets, TLC

(***************************************************************************)
(* Python str helpers                                                      *)
(***************************************************************************)
UpperCase == <<"A","B","C","D","E","F","G","H","I","J","K","L","M","N","O","P","Q","R","S","T","U","V","W","X","Y","Z">>

LowerCase == <<"a","b","c","d","e","f","g","h","i","j","k","l","m","n","o","p","q","r","s","t","u","v","w","x","y","z">>

Whitespace == {" ", "\t", "\n"}

LowerChar(c) ==
    IF \E i \in DOMAIN UpperCase : UpperCase[i] = c
    THEN LowerCase[CHOOSE i \in DOMAIN UpperCase : UpperCase[i] = c]
    ELSE c

UpperChar(c) ==
    IF \E i \in DOMAIN LowerCase : LowerCase[i] = c
    THEN UpperCase[CHOOSE i \in DOMAIN LowerCase : LowerCase[i] = c]
    ELSE c

\* str.lower()
Lower(s) == [i \in DOMAIN s |-> LowerChar(s[i])]

\* str.upper() (used to build the letter-case variants of the inputs)
Upper(s) == [i \in DOMAIN s |-> UpperChar(s[i])]

\* p in s
Contains(s, p) ==
    \E i \in 0..(Len(s) - Len(p)) : SubSeq(s, i + 1, i + Len(p)) = p

\* s.startswith(p)
StartsWith(s, p) == Len(s) >= Len(p) /\ SubSeq(s, 1, Len(p)) = p

\* s.endswith(p)
EndsWith(s, p) == Len(s) >= Len(p) /\ SubSeq(s, Len(s) - Len(p) + 1, Len(s)) = p

RECURSIVE LStrip(_)
LStrip(s) == IF s /= <<>> /\ Head(s) \in Whitespace THEN LStrip(Tail(s)) ELSE s

RECURSIVE RStrip(_)
\* str.rstrip()
RStrip(s) ==
    IF s /= <<>> /\ s[Len(s)] \in Whitespace THEN RStrip(SubSeq(s, 1, Len(s) - 1)) ELSE s

\* str.strip()
Strip(s) == RStrip(LStrip(s))

RECURSIVE SplitFrom(_, _)
\* str.split() with no separator: the whitespace-separated tokens; cur is the
\* token being collected
SplitFrom(s, cur) ==
    IF s = <<>>
    THEN (IF cur = <<>> THEN <<>> ELSE <<cur>>)
    ELSE IF Head(s) \in Whitespace
         THEN (IF cur = <<>> THEN <<>> ELSE <<cur>>) \o SplitFrom(Tail(s), <<>>)
         ELSE SplitFrom(Tail(s), Append(cur, Head(s)))

Split(s) == SplitFrom(s, <<>>)

RECURSIVE Join(_)
\* '\n'.join(lines)
Join(lines) ==
    IF lines = <<>> THEN <<>>
    ELSE IF Len(lines) = 1 THEN lines[1]
    ELSE lines[1] \o <<"\n">> \o Join(Tail(lines))

(***************************************************************************)
(* CommandExecutor.is_command_safe                                         *)
(***************************************************************************)
dangerous_patterns ==
    << <<"r","m"," ","-","r","f"," ","/">>,
       <<"d","d"," ","i","f","=">>,
       <<"m","k","f","s",".">>,
       <<"f","d","i","s","k">>,
       <<"p","a","r","t","e","d">>,
       <<":","(",")","{"," ",":","|",":","&"," ","}",";",":">>,
       <<"c","h","m","o","d"," ","-","R"," ","7","7","7"," ","/">>,
       <<"f","o","r","m","a","t">>,
       <<"e","r","a","s","e">> >>

is_command_safe(command) ==
    LET command_lower == Lower(command)
    IN  ~ \E k \in DOMAIN dangerous_patterns :
            Contains(command_lower, dangerous_patterns[k])

\* 'pacman' in command.lower()   (execute_command, line 183)
mentions_pacman(command) == Contains(Lower(command), <<"p","a","c","m","a","n">>)

(***************************************************************************)
(* Literals of the source                                                  *)
(***************************************************************************)
SudoToken == <<"s","u","d","o">>

MsgBlocked == <<"C","o","m","m","a","n","d"," ","b","l","o","c","k","e","d"," ","f","o","r"," ","s","a","f","e","t","y"," ","r","e","a","s","o","n","s">>

MsgNoPassword == <<"P","a","s","s","w","o","r","d"," ","r","e","q","u","i","r","e","d"," ","b","u","t"," ","n","o","t"," ","p","r","o","v","i","d","e","d">>

MsgInvalidPassword == <<"I","n","v","a","l","i","d"," ","p","a","s","s","w","o","r","d">>

MsgLockNotRemoved == <<"C","o","u","l","d"," ","n","o","t"," ","r","e","m","o","v","e"," ","p","a","c","m","a","n"," ","l","o","c","k"," ","-"," ","a","n","o","t","h","e","r"," ","p","a","c","k","a","g","e"," ","m","a","n","a","g","e","r"," ","m","a","y"," ","b","e"," ","r","u","n","n","i","n","g">>

MsgLockDeclined == <<"C","o","m","m","a","n","d"," ","c","a","n","c","e","l","l","e","d"," ","-"," ","p","a","c","m","a","n"," ","d","a","t","a","b","a","s","e"," ","i","s"," ","l","o","c","k","e","d">>

MsgExecutionError == <<"E","x","e","c","u","t","i","o","n"," ","e","r","r","o","r",":"," ">>

MsgTimeout == <<"\n","T","i","m","e","o","u","t"," ","r","e","a","c","h","e","d">>

\* str(e) of the IndexError that subprocess.Popen([]) raises
ErrEmptyArgs == <<"l","i","s","t"," ","i","n","d","e","x"," ","o","u","t"," ","o","f"," ","r","a","n","g","e">>

\* str(e) of the FileNotFoundError of an executable that does not exist
ErrNotFound == <<"N","o"," ","s","u","c","h"," ","f","i","l","e">>

\* the value None of an Optional[str] field; the code only tests such fields
\* for truth, and never stores an empty string in them
None == <<>>

(***************************************************************************)
(* CommandResult                                                           *)
(***************************************************************************)
CommandResult(command, status, return_code, stdout, stderr, execution_time) ==
    [command |-> command, status |-> status, return_code |-> return_code,
     stdout |-> stdout, stderr |-> stderr, execution_time |-> execution_time]

\* no result: the call has not returned one
NoResult == CommandResult(<<>>, "none", 0, <<>>, <<>>, 0)

max_password_attempts == 3

(***************************************************************************)
(* CommandExecutor.get_sudo_password: the value returned and the fields     *)
(* after the call. app: QApplication.instance() is not None; reply: what    *)
(* QInputDialog.getText returns.                                            *)
(***************************************************************************)
get_sudo_password(cached, attempts, app, reply) ==
    IF cached /= None /\ attempts < max_password_attempts
    THEN [password |-> cached, sudo_password |-> cached, password_attempts |-> attempts,
          prompted |-> FALSE]
    ELSE IF app /\ reply.ok /\ reply.password /= <<>>
         THEN [password |-> reply.password, sudo_password |-> reply.password,
               password_attempts |-> 0, prompted |-> TRUE]
         ELSE [password |-> None, sudo_password |-> cached, password_attempts |-> attempts,
               prompted |-> app]

\* CommandExecutor.validate_sudo_password: sudo_exit is how `sudo -S true`
\* ended: "ok" (return code 0), "fail" (non-zero), "error" (an exception)
validate_sudo_password(attempts, sudo_exit) ==
    IF sudo_exit = "ok" THEN [valid |-> TRUE, password_attempts |-> attempts]
    ELSE IF sudo_exit = "fail" THEN [valid |-> FALSE, password_attempts |-> attempts + 1]
    ELSE [valid |-> FALSE, password_attempts |-> attempts]

(***************************************************************************)
(* CommandExecutor.prepare_command_with_sudo: ok = FALSE stands for the     *)
(* (None, message) return; validated is how the validation ended ("none"    *)
(* if there was none), prompted whether the password prompt was shown.      *)
(***************************************************************************)
prepare_command_with_sudo(command, cached, attempts, app, reply, sudo_exit) ==
    LET needs_sudo == StartsWith(Strip(command), SudoToken)
        stripped == Strip(command)
        cmd_without_sudo == Strip(SubSeq(stripped, 5, Len(stripped)))
        cmd_list == <<SudoToken, <<"-","S">> >> \o Split(cmd_without_sudo)
        got == get_sudo_password(cached, attempts, app, reply)
        val == validate_sudo_password(got.password_attempts, sudo_exit)
    IN  IF needs_sudo
        THEN IF got.password = None
             THEN [ok |-> FALSE, cmd_list |-> <<>>, msg |-> MsgNoPassword,
                   password_input |-> None,
                   validated |-> "none", prompted |-> got.prompted,
                   sudo_password |-> got.sudo_password,
                   password_attempts |-> got.password_attempts]
             ELSE IF ~ val.valid
             THEN [ok |-> FALSE, cmd_list |-> <<>>, msg |-> MsgInvalidPassword,
                   password_input |-> None,
                   validated |-> sudo_exit, prompted |-> got.prompted,
                   sudo_password |-> IF val.password_attempts >= max_password_attempts
                                     THEN None ELSE got.sudo_password,
                   password_attempts |-> val.password_attempts]
             ELSE [ok |-> TRUE, cmd_list |-> cmd_list, msg |-> <<>>,
                   password_input |-> got.password \o <<"\n">>,
                   validated |-> sudo_exit, prompted |-> got.prompted,
                   sudo_password |-> got.sudo_password,
                   password_attempts |-> val.password_attempts]
        ELSE [ok |-> TRUE, cmd_list |-> Split(command), msg |-> <<>>,
              password_input |-> None,
              validated |-> "none", prompted |-> FALSE,
              sudo_password |-> cached, password_attempts |-> attempts]

(***************************************************************************)
(* State                                                                   *)
(***************************************************************************)
VARIABLES
    \* CommandExecutor fields
    current_process,    \* the Popen handle: 0 is None, n > 0 the n-th child
    is_running,
    should_cancel,
    sudo_password,
    password_attempts,
    \* control: pc[t] of the thread calling execute_command ("main") and of
    \* the thread calling cancel_current_command / cancel_queue ("cancel")
    pc,
    term_ret,           \* where terminate_process returns to, per thread
    frame,              \* arguments and locals of the execute_command call
    line_queue,         \* stdout_queue / stderr_queue of the call
    rpc,                \* position of the read_stdout / read_stderr threads
    \* operating system
    os,                 \* the spawned process group
    pipe,               \* lines written by the group and not yet read
    lock_exists,        \* /var/lib/pacman/db.lck exists
    clock,              \* time.time() - start_time of the call in progress
    \* what the caller and the signal receivers have seen of the call
    obs,
    \* CommandQueue fields and the position of execute_queue
    queue,
    q_is_running,
    current_index,
    qframe,
    \* MainWindow.command_history and the entries handed to it so far
    command_history,
    appended,
    \* number of calls of each kind made by the environment
    calls

vars == <<current_process, is_running, should_cancel, sudo_password,
          password_attempts, pc, term_ret, frame, line_queue, rpc, os, pipe,
          lock_exists, clock, obs, queue, q_is_running, current_index, qframe,
          command_history, appended, calls>>

executor_vars == <<current_process, is_running, should_cancel, sudo_password,
                   password_attempts>>

queue_vars == <<queue, q_is_running, current_index, qframe>>

history_vars == <<command_history, appended>>

Streams == {"stdout", "stderr"}

(***************************************************************************)
(* Bounds of the model                                                     *)
(***************************************************************************)
\* execute_command calls made directly by the environment in one behaviour
MaxCalls == 1

\* cancel_current_command / cancel_queue calls in one behaviour
MaxCancels == 1

\* the clock stops advancing MaxClock ticks after the start of a call
MaxClock == 2

\* add_command calls on the queue
MaxQueue == 2

\* execute_command calls made by execute_queue in one behaviour
MaxQueueCalls == 3

\* add_command_to_history calls beyond the history cap
MaxOverflow == 4

\* confirmed clear_history calls
MaxClears == 1

\* execute_command calls, one after another, that may ask for the password
MaxSudoCalls == 4

(***************************************************************************)
(* Inputs                                                                  *)
(***************************************************************************)
GoodPassword == <<"p","w">>

BadPassword == <<"n","o">>

\* what QInputDialog.getText can return: (text, ok)
PromptReplies ==
    { [ok |-> FALSE, password |-> <<>>], [ok |-> TRUE, password |-> <<>>],
      [ok |-> TRUE, password |-> GoodPassword], [ok |-> TRUE, password |-> BadPassword] }

\* how `sudo -S true` can end for a password
SudoExits(password) ==
    IF password = GoodPassword THEN {"ok", "error"} ELSE {"fail", "error"}

CmdEcho == <<"e","c","h","o"," ","h","i">>

CmdSudoEcho == <<"s","u","d","o"," ","e","c","h","o"," ","h","i">>

CmdPacman == <<"p","a","c","m","a","n"," ","-","S","y","u">>

CmdSudoPacman == <<"s","u","d","o"," ","p","a","c","m","a","n"," ","-","S","y","u">>

CmdCurl == <<"c","u","r","l"," ","h","t","t","p",":","/","/","e","v","i","l">>

CmdPathCurl == <<"s","u","d","o"," ","/","u","s","r","/","b","i","n","/","c","u","r","l"," ","x">>

CmdSudoedit == <<"s","u","d","o","e","d","i","t"," ","x">>

CmdEmpty == <<>>

CmdBlank == <<" ","\t"," ">>

\* s with the letter at position i in the other case
ToggleCase(s, i) ==
    [j \in DOMAIN s |-> IF j /= i THEN s[j]
                        ELSE IF LowerChar(s[j]) /= s[j] THEN LowerChar(s[j])
                        ELSE UpperChar(s[j])]

\* the letter-case variants of a pattern that the inputs use
CaseVariants(p) == {p, Lower(p), Upper(p), ToggleCase(p, 1), ToggleCase(p, Len(p) - 1)}

Prefixes == { <<>>, <<"s","u","d","o"," ">>, <<"l","s"," ",";"," ">> }

Suffixes == { <<>>, <<" ","x">> }

\* every denylist pattern, in several letter-cases, alone and embedded
DenylistedCommands ==
    { pre \o v \o suf :
        pre \in Prefixes, suf \in Suffixes,
        v \in UNION { CaseVariants(dangerous_patterns[k]) : k \in DOMAIN dangerous_patterns } }

BenignCommands ==
    {CmdEcho, CmdSudoEcho, CmdPacman, CmdSudoPacman, CmdCurl, CmdPathCurl, CmdEmpty, CmdBlank}

PolicyCommands == DenylistedCommands \cup BenignCommands

RunCommands == {CmdEcho}

SudoCommands == {CmdEcho, CmdSudoEcho, CmdSudoedit}

\* a command for each way out of execute_command
PathCommands == {CmdSudoEcho, CmdPacman, dangerous_patterns[1]}

\* the timeout of the calls of that specification
PathTimeouts == {1}

\* timeout argument: 0 is "no timeout"
Timeouts == {0, 1}

(***************************************************************************)
(* The spawned process group.  A script is what the command does: the raw   *)
(* lines it writes, whether it then exits ("exit"), runs on with its pipes  *)
(* open ("hang") or closes its pipes and runs on ("close_hang"), its exit   *)
(* code, whether it dies on SIGTERM, and whether it has forked a descendant *)
(* in its group ("none", or how the descendant takes SIGTERM).  A           *)
(* descendant inherits both pipes and holds them open while it lives.       *)
(***************************************************************************)
LineA == <<"a","\n">>

LineB == <<"b"," ","\n">>

LineE == <<"e","\n">>

\* a line of output that holds the text of the password
LineSecret == <<"k","=">> \o GoodPassword \o <<"\n">>

Script(out, err, behaviour, code, on_term, desc) ==
    [out |-> out, err |-> err, behaviour |-> behaviour, code |-> code,
     on_term |-> on_term, desc |-> desc]

NoScript == Script(<<>>, <<>>, "exit", 0, "die", "none")

\* the scripts of the concurrency specification
RunScripts ==
    { Script(<<LineB>>, <<>>, "exit", 0, "die", "none"),
      Script(<<>>, <<LineE>>, "exit", 1, "die", "none"),
      Script(<<LineA>>, <<>>, "hang", 0, "ignore", "none"),
      Script(<<LineA>>, <<>>, "hang", 0, "die", "ignore"),
      Script(<<>>, <<>>, "close_hang", 0, "die", "none") }

\* the scripts of the specifications that are not about the child
PlainScripts ==
    { Script(<<LineSecret>>, <<>>, "exit", 0, "die", "none"),
      Script(<<>>, <<LineSecret>>, "exit", 1, "die", "none"),
      Script(<<>>, <<>>, "hang", 0, "ignore", "none") }

\* the scripts of the specification of the output: several lines on a
\* stream, and a child that writes and then runs on, whatever it is sent
OutputScripts ==
    { Script(<<LineB, LineA>>, <<LineE>>, "exit", 0, "die", "none"),
      Script(<<LineA>>, <<LineE, LineB>>, "exit", 1, "die", "none"),
      Script(<<LineA, LineB>>, <<LineE>>, "hang", 0, "ignore", "none") }

\* the scripts of the specification of the ways out: write a line and exit
\* with 0, and run on whatever is sent
PathScripts ==
    { Script(<<LineA>>, <<>>, "exit", 0, "die", "none"),
      Script(<<>>, <<>>, "hang", 0, "ignore", "none") }

\* the scripts of the specification of two calls: exit with 0, and run on
\* whatever is sent
SecondScripts ==
    { Script(<<>>, <<>>, "exit", 0, "die", "none"),
      Script(<<>>, <<>>, "hang", 0, "ignore", "none") }

\* the script of the specification of elevation: exit with 0
SudoScripts == { Script(<<>>, <<>>, "exit", 0, "die", "none") }

NoProcess ==
    [child |-> "none", code |-> 0, reaped |-> FALSE, desc |-> "none",
     closed |-> FALSE, script |-> NoScript,
     left |-> [k \in Streams |-> <<>>]]

\* subprocess.Popen(cmd_list, ..., preexec_fn=os.setsid): a new group
Spawned(script) ==
    [child |-> "run", code |-> 0, reaped |-> FALSE,
     desc |-> IF script.desc = "none" THEN "none" ELSE "run",
     closed |-> FALSE, script |-> script,
     left |-> [k \in Streams |-> IF k = "stdout" THEN script.out ELSE script.err]]

\* some process of the group still has the write ends of the pipes
HoldsOpen(o) == (o.child = "run" /\ ~ o.closed) \/ o.desc = "run"

\* an end of stream that does not wait for the pipe to be empty
AtEOF_Early(k) == ~ HoldsOpen(os)

\* readline() returns '': nothing left to read and no writer left
AtEOF(k) == pipe[k] = <<>> /\ ~ HoldsOpen(os)

\* os.killpg(pgid, SIGTERM): every member that does not ignore it dies
SigTerm(o) ==
    [o EXCEPT !.child = IF o.child = "run" /\ o.script.on_term = "die" THEN "dead" ELSE @,
              !.code = IF o.child = "run" /\ o.script.on_term = "die" THEN -15 ELSE @,
              !.desc = IF o.desc = "run" /\ o.script.desc = "die" THEN "dead" ELSE @]

\* os.killpg(pgid, SIGKILL): every member dies
SigKill(o) ==
    [o EXCEPT !.child = IF o.child = "run" THEN "dead" ELSE @,
              !.code = IF o.child = "run" THEN -9 ELSE @,
              !.desc = IF o.desc = "run" THEN "dead" ELSE @]

\* the child writes its next line to one of its streams
child_write(k) ==
    /\ os.child = "run" /\ ~ os.closed
    /\ os.left[k] /= <<>>
    /\ pipe' = [pipe EXCEPT ![k] = Append(@, Head(os.left[k]))]
    /\ os' = [os EXCEPT !.left[k] = Tail(@)]
    /\ UNCHANGED <<executor_vars, pc, term_ret, frame, line_queue, rpc, lock_exists,
                   clock, obs, queue_vars, history_vars, calls>>

\* the child has written everything: it exits, or closes its pipes and runs on
child_finish ==
    /\ os.child = "run" /\ ~ os.closed
    /\ \A k \in Streams : os.left[k] = <<>>
    /\ os.script.behaviour \in {"exit", "close_hang"}
    /\ os' = IF os.script.behaviour = "exit"
             THEN [os EXCEPT !.child = "dead", !.code = os.script.code]
             ELSE [os EXCEPT !.closed = TRUE]
    /\ UNCHANGED <<executor_vars, pc, term_ret, frame, line_queue, rpc, pipe,
                   lock_exists, clock, obs, queue_vars, history_vars, calls>>

\* time passes.  The call reads time.time() at line 305 (when timeout is not
\* 0) and at lines 313, 365 and 379 only, so the clock is advanced where one
\* of these reads comes next.
Tick ==
    /\ \/ pc["main"] = "L305" /\ frame.timeout /= 0
       \/ pc["main"] \in {"L307", "L351", "L373"}
    /\ clock < MaxClock
    /\ clock' = clock + 1
    /\ UNCHANGED <<executor_vars, pc, term_ret, frame, line_queue, rpc, os, pipe,
                   lock_exists, obs, queue_vars, history_vars, calls>>

(***************************************************************************)
(* read_stdout / read_stderr (execute_command, lines 265-287)               *)
(***************************************************************************)
QueueLine(text) == [eof |-> FALSE, text |-> text]

\* the None that ends a stream
Sentinel == [eof |-> TRUE, text |-> <<>>]

\* for line in iter(self.current_process.stdout.readline, ''): readline()
\* returns a line, which is put rstrip()ped, or '' at end of
\* stream, which ends the loop and puts the sentinel
reader_readline(k) ==
    /\ rpc[k] = "readline"
    /\ \/ /\ pipe[k] /= <<>>
          /\ line_queue' = [line_queue EXCEPT ![k] = Append(@, QueueLine(RStrip(Head(pipe[k]))))]
          /\ pipe' = [pipe EXCEPT ![k] = Tail(@)]
          /\ rpc' = [rpc EXCEPT ![k] = "check"]
       \/ /\ AtEOF(k)
          /\ line_queue' = [line_queue EXCEPT ![k] = Append(@, Sentinel)]
          /\ rpc' = [rpc EXCEPT ![k] = "done"]
          /\ UNCHANGED pipe
    /\ UNCHANGED <<executor_vars, pc, term_ret, frame, os, lock_exists, clock, obs,
                   queue_vars, history_vars, calls>>

\* if self.should_cancel: break   (then the finally puts the sentinel)
reader_check(k) ==
    /\ rpc[k] = "check"
    /\ IF should_cancel
       THEN /\ line_queue' = [line_queue EXCEPT ![k] = Append(@, Sentinel)]
            /\ rpc' = [rpc EXCEPT ![k] = "done"]
       ELSE /\ rpc' = [rpc EXCEPT ![k] = "readline"]
            /\ UNCHANGED line_queue
    /\ UNCHANGED <<executor_vars, pc, term_ret, frame, os, pipe, lock_exists, clock,
                   obs, queue_vars, history_vars, calls>>

read_stdout == reader_readline("stdout") \/ reader_check("stdout")

read_stderr == reader_readline("stderr") \/ reader_check("stderr")

(***************************************************************************)
(* CommandExecutor.terminate_process, run by thread t.  Each statement      *)
(* reads self.current_process again; an exception (the field is None, or    *)
(* the child has been reaped and getpgid finds no process) is caught at     *)
(* line 404 and ends the call.                                              *)
(***************************************************************************)
Threads == {"main", "cancel", "second"}

\* what poll() must return for the force-kill to be sent
NeedsKill(o) == o.child = "run"

\* the call of terminate_process and its line 390, if self.current_process:
\* where the caller goes next.  The statements after line 390 read the field
\* again, so a reset of the field after this test is still seen.
terminate_call(ret) == IF current_process = 0 THEN ret ELSE "T394"

\* lines 394-395: os.killpg(os.getpgid(pid), signal.SIGTERM); time.sleep(1)
terminate_T394(t) ==
    /\ pc[t] = "T394"
    /\ IF current_process = 0 \/ os.reaped
       THEN /\ pc' = [pc EXCEPT ![t] = term_ret[t]]
            /\ UNCHANGED os
       ELSE /\ os' = SigTerm(os)
            /\ pc' = [pc EXCEPT ![t] = "T396"]
    /\ UNCHANGED <<executor_vars, term_ret, frame, line_queue, rpc, pipe,
                   lock_exists, clock, obs, queue_vars, history_vars, calls>>

\* line 396: if self.current_process.poll() is None:
terminate_T396(t) ==
    /\ pc[t] = "T396"
    /\ IF current_process = 0
       THEN /\ pc' = [pc EXCEPT ![t] = term_ret[t]]
            /\ UNCHANGED os
       ELSE IF NeedsKill(os)
       THEN /\ pc' = [pc EXCEPT ![t] = "T397"]
            /\ UNCHANGED os
       ELSE /\ pc' = [pc EXCEPT ![t] = term_ret[t]]
            /\ os' = [os EXCEPT !.reaped = TRUE]
    /\ UNCHANGED <<executor_vars, term_ret, frame, line_queue, rpc, pipe,
                   lock_exists, clock, obs, queue_vars, history_vars, calls>>

\* line 397: os.killpg(os.getpgid(pid), signal.SIGKILL)
terminate_T397(t) ==
    /\ pc[t] = "T397"
    /\ os' = IF current_process = 0 \/ os.reaped THEN os ELSE SigKill(os)
    /\ pc' = [pc EXCEPT ![t] = term_ret[t]]
    /\ UNCHANGED <<executor_vars, term_ret, frame, line_queue, rpc, pipe,
                   lock_exists, clock, obs, queue_vars, history_vars, calls>>

terminate_process(t) ==
    terminate_T394(t) \/ terminate_T396(t) \/ terminate_T397(t)

(***************************************************************************)
(* CommandExecutor.execute_command                                          *)
(***************************************************************************)
NoFrame ==
    [command |-> <<>>, timeout |-> 0, cmd_list |-> <<>>, password_input |-> None,
     stdout_lines |-> <<>>, stderr_lines |-> <<>>,
     stdout_finished |-> FALSE, stderr_finished |-> FALSE,
     return_code |-> 0, ret |-> NoResult, exc |-> <<>>]

\* what a call that mentions pacman found while the lock file existed: whether
\* a QApplication was running, whether a pacman process was running, and what
\* the caller answers to the question of line 190
NoLockSeen == [found |-> FALSE, app |-> FALSE, pacman_running |-> FALSE, answer |-> "none"]

\* line 17 imports QInputDialog and QLineEdit only
QMessageBoxImported == FALSE

\* remove_pacman_lock (lines 73-93).  pacman_running: `pgrep -x pacman` ends
\* with 0; rm_ok: `sudo rm -f` ends with 0 (it raises otherwise)
remove_pacman_lock(lock, pacman_running, rm_ok) ==
    IF ~ lock THEN [ok |-> TRUE, lock_exists |-> lock]
    ELSE IF pacman_running THEN [ok |-> FALSE, lock_exists |-> lock]
    ELSE IF rm_ok THEN [ok |-> TRUE, lock_exists |-> FALSE]
    ELSE [ok |-> FALSE, lock_exists |-> lock]

\* lines 183-217: "pass" goes on to line 220, "raise" is the NameError of the
\* name QMessageBox at line 190, "locked" returns a LOCKED result
lock_check(command, lock, app, env) ==
    IF ~ (mentions_pacman(command) /\ lock /\ app)
    THEN [outcome |-> "pass", msg |-> <<>>, lock_exists |-> lock]
    ELSE IF ~ QMessageBoxImported
    THEN [outcome |-> "raise", msg |-> <<>>, lock_exists |-> lock]
    ELSE IF env.answer = "yes"
    THEN LET removed == remove_pacman_lock(lock, env.pacman_running, env.rm_ok)
         IN  IF removed.ok
             THEN [outcome |-> "pass", msg |-> <<>>, lock_exists |-> removed.lock_exists]
             ELSE [outcome |-> "locked", msg |-> MsgLockNotRemoved,
                   lock_exists |-> removed.lock_exists]
    ELSE [outcome |-> "locked", msg |-> MsgLockDeclined, lock_exists |-> lock]

\* what is seen of a call: its command and its use_sudo argument, whether the
\* password prompt was shown and how the validation of the password ended,
\* the argument list given to Popen and the time of the Popen call, whether
\* the call has returned, the result
\* returned or the exception raised, the signals emitted, the lines
\* forwarded, the Popen calls and children made, what ended the supervising
\* loop, and where the call and its child were when cancel_current_command
\* found is_running set
NoObs ==
    [called |-> FALSE, command |-> <<>>, use_sudo |-> TRUE,
     prompted |-> FALSE, validated |-> "none", argv |-> <<>>,
     lock_seen |-> NoLockSeen, spawn_clock |-> 0,
     returned |-> FALSE, result |-> NoResult, raised |-> "none",
     started |-> 0, finished |-> <<>>, sink |-> <<>>,
     popen_calls |-> 0, spawned |-> 0,
     saw |-> "none", cancel_at |-> "none", cancel_child |-> "none"]

\* lines 169-234: from the call to the command_started signal.  No shared
\* field is written here and none is read that another thread writes while
\* is_running is False, so the prologue is one step.  It ends by returning a
\* result, by raising, or at line 236.
\*   app      QApplication.instance() is not None
\*   reply    the answer to the password prompt
\*   sudo_exit how the validation `sudo -S true` ends
\*   delay    the time the prompt and the validation took
\*   env      the pacman process, the answer to the question about the lock
\*            file, and how the removal of the lock file ends
execute_command_prologue(command, use_sudo, timeout, app, reply, sudo_exit, delay, env) ==
    LET prep == prepare_command_with_sudo(command, sudo_password, password_attempts,
                                          app, reply, sudo_exit)
        lck == lock_check(command, lock_exists, app, env)
        fresh == [NoObs EXCEPT !.called = TRUE, !.command = command,
                               !.use_sudo = use_sudo,
                               !.lock_seen =
                                   IF mentions_pacman(command) /\ lock_exists
                                   THEN [found |-> TRUE, app |-> app,
                                         pacman_running |-> env.pacman_running,
                                         answer |-> IF app THEN env.answer ELSE "none"]
                                   ELSE NoLockSeen]
    IN  /\ pc["main"] = "idle"
        /\ IF ~ is_command_safe(command)
           THEN \* lines 172-180
                /\ obs' = [fresh EXCEPT !.returned = TRUE,
                              !.result = CommandResult(command, "failed", -1, <<>>,
                                                       MsgBlocked, 0)]
                /\ clock' = 0
                /\ frame' = NoFrame
                /\ UNCHANGED <<executor_vars, pc>>
           ELSE IF lck.outcome = "raise"
           THEN \* line 190: QMessageBox is not imported by the module (lines
                \* 15-17), so the name lookup raises NameError outside the try
                /\ obs' = [fresh EXCEPT !.returned = TRUE, !.raised = "NameError"]
                /\ clock' = 0
                /\ frame' = NoFrame
                /\ UNCHANGED <<executor_vars, pc>>
           ELSE IF lck.outcome = "locked"
           THEN \* lines 201-217
                /\ obs' = [fresh EXCEPT !.returned = TRUE,
                              !.result = CommandResult(command, "locked", -1, <<>>,
                                                       lck.msg, delay)]
                /\ clock' = delay
                /\ frame' = NoFrame
                /\ UNCHANGED <<executor_vars, pc>>
           ELSE IF ~ prep.ok
           THEN \* lines 221-229
                /\ obs' = [fresh EXCEPT !.returned = TRUE,
                              !.prompted = prep.prompted, !.validated = prep.validated,
                              !.result = CommandResult(command, "needs_password", -1,
                                                       <<>>, prep.msg, delay)]
                /\ clock' = delay
                /\ sudo_password' = prep.sudo_password
                /\ password_attempts' = prep.password_attempts
                /\ frame' = NoFrame
                /\ UNCHANGED <<current_process, is_running, should_cancel, pc>>
           ELSE \* lines 231-234: command_started.emit(command)
                /\ obs' = [fresh EXCEPT !.started = 1, !.prompted = prep.prompted,
                                        !.validated = prep.validated]
                /\ clock' = delay
                /\ sudo_password' = prep.sudo_password
                /\ password_attempts' = prep.password_attempts
                /\ frame' = [NoFrame EXCEPT !.command = command, !.timeout = timeout,
                                            !.cmd_list = prep.cmd_list,
                                            !.password_input = prep.password_input]
                /\ pc' = [pc EXCEPT !["main"] = "L237"]
                /\ UNCHANGED <<current_process, is_running, should_cancel>>
        \* the locals, threads and child of the previous call are out of reach
        /\ line_queue' = [k \in Streams |-> <<>>]
        /\ rpc' = [k \in Streams |-> "off"]
        /\ pipe' = [k \in Streams |-> <<>>]
        /\ os' = NoProcess
        /\ lock_exists' = lck.lock_exists
        /\ UNCHANGED term_ret

\* the prologue asks the environment something only for a command that starts
\* with sudo (the password prompt and its validation) or that mentions pacman
\* while the lock file exists (QApplication.instance())
Interactive(command) ==
    \/ StartsWith(Strip(command), SudoToken)
    \/ (mentions_pacman(command) /\ lock_exists)

\* the default of the parameter use_sudo (line 167)
DefaultUseSudo == TRUE

\* no pacman process, and nobody who answers
NoLockEnv == [pacman_running |-> FALSE, answer |-> "no", rm_ok |-> FALSE]

\* what a call that mentions pacman can find while the lock file exists
LockEnvs(command) ==
    IF mentions_pacman(command) /\ lock_exists
    THEN [pacman_running : BOOLEAN, answer : {"yes", "no"}, rm_ok : BOOLEAN]
    ELSE {NoLockEnv}

\* the inputs of a call of execute_command(command, use_sudo, timeout)
execute_command_call(command, use_sudo, timeout) ==
    IF Interactive(command)
    THEN \E app \in BOOLEAN, reply \in PromptReplies, env \in LockEnvs(command) :
           \E sudo_exit \in SudoExits(get_sudo_password(sudo_password, password_attempts,
                                                        app, reply).password),
              delay \in 0..MaxClock :
             execute_command_prologue(command, use_sudo, timeout, app, reply, sudo_exit,
                                      delay, env)
    ELSE execute_command_prologue(command, use_sudo, timeout, FALSE,
                                  [ok |-> FALSE, password |-> <<>>], "error", 0,
                                  NoLockEnv)

\* line 237: self.is_running = True
execute_L237 ==
    /\ pc["main"] = "L237"
    /\ is_running' = TRUE
    /\ pc' = [pc EXCEPT !["main"] = "L238"]
    /\ UNCHANGED <<current_process, should_cancel, sudo_password, password_attempts,
                   term_ret, frame, line_queue, rpc, os, pipe, lock_exists, clock, obs,
                   queue_vars, history_vars, calls>>

\* line 238: self.should_cancel = False
execute_L238 ==
    /\ pc["main"] = "L238"
    /\ should_cancel' = FALSE
    /\ pc' = [pc EXCEPT !["main"] = "L241"]
    /\ UNCHANGED <<current_process, is_running, sudo_password, password_attempts,
                   term_ret, frame, line_queue, rpc, os, pipe, lock_exists, clock, obs,
                   queue_vars, history_vars, calls>>

\* lines 241-297: Popen, the password written to the child's stdin, the two
\* queues and the two reader threads.  Popen raises on an empty argument list
\* and when the executable does not exist; both are caught at line 372.
execute_L241(Scripts) ==
    /\ pc["main"] = "L241"
    /\ \/ /\ frame.cmd_list = <<>>
          /\ frame' = [frame EXCEPT !.exc = ErrEmptyArgs]
          /\ pc' = [pc EXCEPT !["main"] = "L373"]
          /\ obs' = [obs EXCEPT !.popen_calls = @ + 1]
          /\ UNCHANGED <<current_process, os, pipe, line_queue, rpc>>
       \/ /\ frame.cmd_list /= <<>>
          /\ frame' = [frame EXCEPT !.exc = ErrNotFound]
          /\ pc' = [pc EXCEPT !["main"] = "L373"]
          /\ obs' = [obs EXCEPT !.popen_calls = @ + 1]
          /\ UNCHANGED <<current_process, os, pipe, line_queue, rpc>>
       \/ /\ frame.cmd_list /= <<>>
          /\ \E script \in Scripts : os' = Spawned(script)
          /\ current_process' = 1
          /\ rpc' = [k \in Streams |-> "readline"]
          /\ UNCHANGED <<pipe, line_queue>>
          /\ obs' = [obs EXCEPT !.popen_calls = @ + 1, !.spawned = @ + 1,
                                !.argv = frame.cmd_list, !.spawn_clock = clock]
          /\ pc' = [pc EXCEPT !["main"] = "L300"]
          /\ UNCHANGED frame
    /\ UNCHANGED <<is_running, should_cancel, sudo_password, password_attempts,
                   term_ret, lock_exists, clock, queue_vars, history_vars, calls>>

\* the loop test of line 299, evaluated after an iteration
LoopNext(f) == IF f.stdout_finished /\ f.stderr_finished THEN "L346" ELSE "L300"

\* what ended the loop, once it has ended (noted for a call that the
\* environment makes itself, not for one that execute_queue makes)
Saw(o, what) ==
    IF o.saw = "none" /\ qframe.pc = "idle" THEN [o EXCEPT !.saw = what] ELSE o

\* lines 300-302: if self.should_cancel: self.terminate_process(); break
execute_L300 ==
    /\ pc["main"] = "L300"
    /\ IF should_cancel
       THEN /\ pc' = [pc EXCEPT !["main"] = terminate_call("L346")]
            /\ term_ret' = [term_ret EXCEPT !["main"] = "L346"]
            /\ obs' = Saw(obs, "cancel")
       ELSE /\ pc' = [pc EXCEPT !["main"] = "L305"]
            /\ UNCHANGED <<term_ret, obs>>
    /\ UNCHANGED <<executor_vars, frame, line_queue, rpc, os, pipe, lock_exists, clock,
                   queue_vars, history_vars, calls>>

\* a poll that keeps the line for the result and forwards nothing
PollQueue_NoForward(st, k) ==
    LET f == st[1]
        q == st[2]
    IN  IF q[k] = <<>> THEN st
        ELSE IF Head(q[k]).eof
             THEN << IF k = "stdout" THEN [f EXCEPT !.stdout_finished = TRUE]
                                     ELSE [f EXCEPT !.stderr_finished = TRUE],
                     [q EXCEPT ![k] = Tail(@)], st[3] >>
             ELSE << IF k = "stdout"
                     THEN [f EXCEPT !.stdout_lines = Append(@, Head(q[k]).text)]
                     ELSE [f EXCEPT !.stderr_lines = Append(@, Head(q[k]).text)],
                     [q EXCEPT ![k] = Tail(@)], st[3] >>

\* one poll of a queue (lines 316-327 for stdout, 329-340 for stderr):
\* get_nowait() raises queue.Empty on an empty queue; the sentinel sets the
\* finished flag; a line is appended to the lines of the stream and forwarded
\* to output_received.  st is <<frame, line_queue, obs>>.
PollQueue(st, k) ==
    LET f == st[1]
        q == st[2]
        o == st[3]
    IN  IF q[k] = <<>> THEN st
        ELSE LET line == Head(q[k])
                 rest == [q EXCEPT ![k] = Tail(@)]
             IN  IF line.eof
                 THEN << IF k = "stdout" THEN [f EXCEPT !.stdout_finished = TRUE]
                                         ELSE [f EXCEPT !.stderr_finished = TRUE],
                         rest, o >>
                 ELSE << IF k = "stdout" THEN [f EXCEPT !.stdout_lines = Append(@, line.text)]
                                         ELSE [f EXCEPT !.stderr_lines = Append(@, line.text)],
                         rest,
                         [o EXCEPT !.sink = Append(@, <<k, line.text>>)] >>

\* lines 305-342 and the loop test of line 299: the timeout check, then the
\* poll of the stdout queue and the poll of the stderr queue.  The reader
\* threads only append to the queues, so the two polls are one step.
execute_L305 ==
    /\ pc["main"] = "L305"
    /\ IF frame.timeout /= 0 /\ clock > frame.timeout
       THEN /\ pc' = [pc EXCEPT !["main"] = terminate_call("L307")]
            /\ term_ret' = [term_ret EXCEPT !["main"] = "L307"]
            /\ obs' = Saw(obs, "timeout")
            /\ UNCHANGED <<frame, line_queue>>
       ELSE LET st == PollQueue(PollQueue(<<frame, line_queue, obs>>, "stdout"), "stderr")
            IN  /\ frame' = st[1]
                /\ line_queue' = st[2]
                /\ obs' = IF LoopNext(st[1]) = "L346" THEN Saw(st[3], "normal") ELSE st[3]
                /\ pc' = [pc EXCEPT !["main"] = LoopNext(st[1])]
                /\ UNCHANGED term_ret
    /\ UNCHANGED <<executor_vars, rpc, os, pipe, lock_exists, clock,
                   queue_vars, history_vars, calls>>

\* the status of the result returned when the timeout is exceeded
TimeoutStatus == "failed"

\* the stderr of the result returned when the timeout is exceeded
TimeoutStderr_NoMarker(stderr_lines) == Join(stderr_lines)

TimeoutStderr(stderr_lines) == Join(stderr_lines) \o MsgTimeout

\* lines 307-314: the result of a timeout; it is returned without a
\* command_finished signal
execute_L307 ==
    /\ pc["main"] = "L307"
    /\ frame' = [frame EXCEPT !.ret =
                    CommandResult(frame.command, TimeoutStatus, -1,
                                  Join(frame.stdout_lines),
                                  TimeoutStderr(frame.stderr_lines), clock)]
    /\ pc' = [pc EXCEPT !["main"] = "L385"]
    /\ UNCHANGED <<executor_vars, term_ret, line_queue, rpc, os, pipe, lock_exists,
                   clock, obs, queue_vars, history_vars, calls>>

\* lines 345-348: return_code = self.current_process.wait(), which blocks
\* until the child has exited
execute_L346 ==
    /\ pc["main"] = "L346"
    /\ os.child = "dead"
    /\ frame' = [frame EXCEPT !.return_code = os.code]
    /\ os' = [os EXCEPT !.reaped = TRUE]
    /\ pc' = [pc EXCEPT !["main"] = "L351"]
    /\ UNCHANGED <<executor_vars, term_ret, line_queue, rpc, pipe, lock_exists, clock,
                   obs, queue_vars, history_vars, calls>>

\* a status taken from the exit code alone
FinalStatus_ExitCodeOnly(cancel, return_code) ==
    IF return_code = 0 THEN "success" ELSE "failed"

\* lines 351-356
FinalStatus(cancel, return_code) ==
    IF cancel THEN "cancelled"
    ELSE IF return_code = 0 THEN "success"
    ELSE "failed"

\* lines 350-370: the status, the result, command_finished.emit(result)
execute_L351 ==
    /\ pc["main"] = "L351"
    /\ LET result == CommandResult(frame.command,
                                   FinalStatus(should_cancel, frame.return_code),
                                   frame.return_code, Join(frame.stdout_lines),
                                   Join(frame.stderr_lines), clock)
       IN  /\ frame' = [frame EXCEPT !.ret = result]
           /\ obs' = [obs EXCEPT !.finished = Append(@, result)]
    /\ pc' = [pc EXCEPT !["main"] = "L385"]
    /\ UNCHANGED <<executor_vars, term_ret, line_queue, rpc, os, pipe, lock_exists,
                   clock, queue_vars, history_vars, calls>>

\* lines 372-382: except Exception as e
execute_L373 ==
    /\ pc["main"] = "L373"
    /\ LET error_result == CommandResult(frame.command, "failed", -1, <<>>,
                                         MsgExecutionError \o frame.exc, clock)
       IN  /\ frame' = [frame EXCEPT !.ret = error_result]
           /\ obs' = [obs EXCEPT !.finished = Append(@, error_result)]
    /\ pc' = [pc EXCEPT !["main"] = "L385"]
    /\ UNCHANGED <<executor_vars, term_ret, line_queue, rpc, os, pipe, lock_exists,
                   clock, queue_vars, history_vars, calls>>

\* a finally that leaves is_running as it is
execute_L385_NoReset ==
    /\ pc["main"] = "L385"
    /\ pc' = [pc EXCEPT !["main"] = "L386"]
    /\ UNCHANGED <<executor_vars, term_ret, frame, line_queue, rpc, os, pipe,
                   lock_exists, clock, obs, queue_vars, history_vars, calls>>

\* line 385 (finally): self.is_running = False
execute_L385 ==
    /\ pc["main"] = "L385"
    /\ is_running' = FALSE
    /\ pc' = [pc EXCEPT !["main"] = "L386"]
    /\ UNCHANGED <<current_process, should_cancel, sudo_password, password_attempts,
                   term_ret, frame, line_queue, rpc, os, pipe, lock_exists, clock, obs,
                   queue_vars, history_vars, calls>>

\* line 386 (finally): self.current_process = None, and the return
execute_L386 ==
    /\ pc["main"] = "L386"
    /\ current_process' = 0
    /\ obs' = [obs EXCEPT !.returned = TRUE, !.result = frame.ret]
    /\ pc' = [pc EXCEPT !["main"] = "idle"]
    /\ UNCHANGED <<is_running, should_cancel, sudo_password, password_attempts,
                   term_ret, frame, line_queue, rpc, os, pipe, lock_exists, clock,
                   queue_vars, history_vars, calls>>

(***************************************************************************)
(* CommandExecutor.cancel_current_command, called on the "cancel" thread    *)
(***************************************************************************)
\* the cancel request is made (line 410 sets the flag): where the
\* execute_command call is then ("reset": before line 238 has run; "spawn":
\* before Popen; "loop": in the supervising loop; "after": the loop has ended)
\* and what its child is doing (noted for a call that the environment makes
\* itself)
CancelSeen(o) ==
    IF o.cancel_at /= "none" \/ qframe.pc /= "idle" THEN o
    ELSE [o EXCEPT !.cancel_at = IF pc["main"] \in {"L237", "L238"} THEN "reset"
                                 ELSE IF pc["main"] = "L241" THEN "spawn"
                                 ELSE IF pc["main"] \in {"L300", "L305"} /\ o.saw = "none"
                                 THEN "loop"
                                 ELSE "after",
                   !.cancel_child = IF current_process = 0 THEN "none" ELSE os.child]

\* the entry of the queue that execute_queue is about to execute or is
\* executing (lines 513-516 and the spawned child of line 516), 0 if none
CurrentEntry ==
    IF qframe.pc = "Q513" THEN qframe.i
    ELSE IF qframe.pc = "Q516" /\ (pc["main"] \in {"L237", "L238", "L241"} \/ os.child = "run")
    THEN qframe.i
    ELSE 0

\* the entry that was current when the cancel_current_command() of a
\* cancel_queue() call tested is_running at line 409 (noted once per run)
QueueCancelSeen ==
    IF qframe.pc /= "idle" /\ qframe.cancel_cur = -1
    THEN [qframe EXCEPT !.cancel_cur = CurrentEntry]
    ELSE qframe

\* line 409 without its test: the cancellation goes ahead in every state
cancel_C409_NoTest ==
    /\ pc["cancel"] = "C409"
    /\ pc' = [pc EXCEPT !["cancel"] = "C410"]
    /\ qframe' = QueueCancelSeen
    /\ UNCHANGED <<executor_vars, term_ret, frame, line_queue, rpc, os, pipe,
                   lock_exists, clock, obs, queue, q_is_running, current_index,
                   history_vars, calls>>

\* line 409: if self.is_running:
cancel_C409 ==
    /\ pc["cancel"] = "C409"
    /\ pc' = [pc EXCEPT !["cancel"] = IF is_running THEN "C410" ELSE "idle"]
    /\ qframe' = QueueCancelSeen
    /\ UNCHANGED <<executor_vars, term_ret, frame, line_queue, rpc, os, pipe,
                   lock_exists, clock, obs, queue, q_is_running, current_index,
                   history_vars, calls>>

\* lines 410-411: self.should_cancel = True; self.terminate_process()
cancel_C410 ==
    /\ pc["cancel"] = "C410"
    /\ should_cancel' = TRUE
    /\ pc' = [pc EXCEPT !["cancel"] = terminate_call("idle")]
    /\ term_ret' = [term_ret EXCEPT !["cancel"] = "idle"]
    /\ obs' = CancelSeen(obs)
    /\ UNCHANGED <<current_process, is_running, sudo_password, password_attempts,
                   frame, line_queue, rpc, os, pipe, lock_exists, clock,
                   queue_vars, history_vars, calls>>

\* another thread calls cancel_current_command()
cancel_current_command ==
    /\ pc["cancel"] = "idle"
    /\ calls.cancel < MaxCancels
    /\ calls' = [calls EXCEPT !.cancel = @ + 1]
    /\ pc' = [pc EXCEPT !["cancel"] = "C409"]
    /\ UNCHANGED <<executor_vars, term_ret, frame, line_queue, rpc, os, pipe,
                   lock_exists, clock, obs, queue_vars, history_vars>>

(***************************************************************************)
(* CommandQueue.  execute_queue runs on the "main" thread and calls          *)
(* execute_command there; add_command and cancel_queue are called from       *)
(* another thread at any time.                                              *)
(***************************************************************************)
\* the timeout of an execute_command call that names none (line 167)
DefaultTimeout == 300

\* what the spawned commands of the queue do: exit with 0, exit with 1
QueueScripts ==
    { Script(<<>>, <<>>, "exit", 0, "die", "none"),
      Script(<<>>, <<>>, "exit", 1, "die", "none") }

\* the commands put in the queue
QueueCommands == {CmdEcho}

\* the commands put in a queue whose entries may mention pacman
BatchCommands == {CmdEcho, CmdPacman}

\* lines 494-499: the entry add_command appends
QueueEntry(command) ==
    [command |-> command, description |-> <<>>, status |-> "pending", result |-> None]

\* the execute_queue call: where it is, the entry it is at (from 1), and what
\* is seen of the call: the entries it has called execute_command for, the
\* first entry whose result was not SUCCESS, what it returned, and the entry
\* that was current when cancel_queue was first called during the call (-1:
\* no such call, 0: no entry was current)
NoQueueFrame ==
    [pc |-> "idle", i |-> 0, executed |-> <<>>, failed_at |-> 0, ret |-> "none",
     cancel_cur |-> -1]

\* add_command(command), for a command of Commands.  It touches the list
\* only, which no statement of the executor reads, so it is taken between the
\* calls of execute_command.
add_command(Commands) ==
    /\ pc["main"] = "idle"
    /\ calls.add < MaxQueue
    /\ calls' = [calls EXCEPT !.add = @ + 1]
    /\ \E command \in Commands : queue' = Append(queue, QueueEntry(command))
    /\ UNCHANGED <<executor_vars, pc, term_ret, frame, line_queue, rpc, os, pipe,
                   lock_exists, clock, obs, q_is_running, current_index, qframe,
                   history_vars>>

\* lines 503-507: if self.is_running: return False; else the flag is set and
\* the loop over the entries begins
execute_queue ==
    /\ qframe.pc = "idle" /\ pc["main"] = "idle"
    /\ IF q_is_running
       THEN /\ qframe' = [NoQueueFrame EXCEPT !.ret = "False"]
            /\ UNCHANGED <<q_is_running, current_index>>
       ELSE /\ q_is_running' = TRUE
            /\ current_index' = 0
            /\ qframe' = [NoQueueFrame EXCEPT !.pc = "Q509", !.i = 1]
    /\ UNCHANGED <<executor_vars, pc, term_ret, frame, line_queue, rpc, os, pipe,
                   lock_exists, clock, obs, queue, history_vars, calls>>

\* lines 509-511: the loop goes on if the list has a next entry and the
\* queue has not been cancelled
queue_Q509 ==
    /\ qframe.pc = "Q509"
    /\ qframe' = [qframe EXCEPT !.pc = IF qframe.i > Len(queue) \/ ~ q_is_running
                                       THEN "Q526" ELSE "Q513"]
    /\ UNCHANGED <<executor_vars, pc, term_ret, frame, line_queue, rpc, os, pipe,
                   lock_exists, clock, obs, queue, q_is_running, current_index,
                   history_vars, calls>>

\* lines 513-516: the entry is marked 'running' and execute_command is called
\* for its command
queue_Q513 ==
    /\ qframe.pc = "Q513"
    /\ calls.exec < MaxQueueCalls
    /\ calls' = [calls EXCEPT !.exec = @ + 1]
    /\ current_index' = qframe.i - 1
    /\ queue' = [queue EXCEPT ![qframe.i].status = "running"]
    /\ qframe' = [qframe EXCEPT !.pc = "Q516", !.executed = Append(@, qframe.i)]
    /\ execute_command_call(queue[qframe.i].command, DefaultUseSudo, DefaultTimeout)
    /\ UNCHANGED <<q_is_running, history_vars>>

\* where the loop goes after an entry: on to the next entry after a SUCCESS,
\* out of the loop otherwise
AfterEntry_Continue(status) == "Q509"

AfterEntry(status) == IF status = "success" THEN "Q509" ELSE "Q526"

\* lines 516-524: execute_command has returned; the result and the status of
\* the entry.  An exception of execute_command leaves execute_queue at once.
queue_Q516 ==
    /\ qframe.pc = "Q516"
    /\ pc["main"] = "idle" /\ obs.returned
    /\ IF obs.raised /= "none"
       THEN /\ qframe' = [qframe EXCEPT !.pc = "idle", !.ret = "raised"]
            /\ UNCHANGED queue
       ELSE /\ queue' = [queue EXCEPT
                           ![qframe.i].result = obs.result,
                           ![qframe.i].status = IF obs.result.status = "success"
                                                THEN "completed" ELSE "failed"]
            /\ qframe' = [qframe EXCEPT
                            !.pc = AfterEntry(obs.result.status),
                            !.i = @ + 1,
                            !.failed_at = IF obs.result.status /= "success" /\ @ = 0
                                          THEN qframe.i ELSE @]
    \* the locals, the threads and the child of the call are out of reach
    /\ frame' = NoFrame
    /\ obs' = NoObs
    /\ line_queue' = [k \in Streams |-> <<>>]
    /\ rpc' = [k \in Streams |-> "off"]
    /\ pipe' = [k \in Streams |-> <<>>]
    /\ os' = NoProcess
    /\ UNCHANGED <<executor_vars, pc, term_ret, lock_exists, clock, q_is_running,
                   current_index, history_vars, calls>>

\* lines 526-527: self.is_running = False; return True
queue_Q526 ==
    /\ qframe.pc = "Q526"
    /\ q_is_running' = FALSE
    /\ qframe' = [qframe EXCEPT !.pc = "idle", !.ret = "True"]
    /\ UNCHANGED <<executor_vars, pc, term_ret, frame, line_queue, rpc, os, pipe,
                   lock_exists, clock, obs, queue, current_index, history_vars, calls>>

\* lines 503-507 in a second caller: execute_queue() is called on the "second"
\* thread while the run of the "main" thread is in progress.  The call either
\* returns False or goes on to the head of its own loop at line 509, where it
\* is left.
execute_queue_second ==
    /\ qframe.pc /= "idle"
    /\ pc["second"] \in {"idle", "False"}
    /\ IF q_is_running
       THEN /\ pc' = [pc EXCEPT !["second"] = "False"]
            /\ UNCHANGED <<q_is_running, current_index>>
       ELSE /\ q_is_running' = TRUE
            /\ current_index' = 0
            /\ pc' = [pc EXCEPT !["second"] = "Q509"]
    /\ UNCHANGED <<executor_vars, term_ret, frame, line_queue, rpc, os, pipe,
                   lock_exists, clock, obs, queue, qframe, history_vars, calls>>

\* cancel_queue(), on the "cancel" thread: self.is_running = False, then
\* self.executor.cancel_current_command()
cancel_queue ==
    /\ pc["cancel"] = "idle"
    /\ calls.cancel < MaxCancels
    /\ calls' = [calls EXCEPT !.cancel = @ + 1]
    /\ q_is_running' = FALSE
    /\ pc' = [pc EXCEPT !["cancel"] = "C409"]
    /\ UNCHANGED <<executor_vars, term_ret, frame, line_queue, rpc, os, pipe,
                   lock_exists, clock, obs, queue, current_index, qframe,
                   history_vars>>

RECURSIVE CountStatus(_, _)
\* sum(1 for cmd in q if cmd['status'] in statuses)
CountStatus(q, statuses) ==
    IF q = <<>> THEN 0
    ELSE (IF Head(q).status \in statuses THEN 1 ELSE 0) + CountStatus(Tail(q), statuses)

\* the statuses get_progress counts
ProgressStatuses_WithRunning == {"completed", "failed", "running"}

ProgressStatuses == {"completed", "failed"}

\* get_progress(): (completed, len(self.queue))
get_progress == <<CountStatus(queue, ProgressStatuses), Len(queue)>>

(***************************************************************************)
(* MainWindow.command_history (gui/main_window.py)                          *)
(***************************************************************************)
\* the number of entries the history keeps
HistoryCap == 100

\* h[:n]
KeepFirst(h, n) == SubSeq(h, 1, IF n < Len(h) THEN n ELSE Len(h))

\* h[-n:]
KeepLast(h, n) == SubSeq(h, IF n < Len(h) THEN Len(h) - n + 1 ELSE 1, Len(h))

\* lines 1878-1880: if len(h) > 100: h = h[-100:]
Trim(h) == IF Len(h) > HistoryCap THEN KeepLast(h, HistoryCap) ELSE h

\* add_command_to_history(command_data).  The entries are told apart by the
\* number of the call that hands them in.  update_history_table() fills the
\* table widget from the list and leaves the list as it is.
add_command_to_history ==
    /\ calls.append < HistoryCap + MaxOverflow
    /\ LET command_data == calls.append + 1
       IN  /\ command_history' = Trim(Append(command_history, command_data))
           /\ appended' = Append(appended, command_data)
    /\ calls' = [calls EXCEPT !.append = @ + 1]
    /\ UNCHANGED <<executor_vars, pc, term_ret, frame, line_queue, rpc, os, pipe,
                   lock_exists, clock, obs, queue_vars>>

\* clear_history(), answered with Yes: self.command_history.clear()
clear_history ==
    /\ calls.clear < MaxClears
    /\ command_history' = <<>>
    /\ appended' = <<>>
    /\ calls' = [calls EXCEPT !.clear = @ + 1]
    /\ UNCHANGED <<executor_vars, pc, term_ret, frame, line_queue, rpc, os, pipe,
                   lock_exists, clock, obs, queue_vars>>

(***************************************************************************)
(* Specifications                                                           *)
(***************************************************************************)
\* CommandExecutor.__init__, CommandQueue.__init__ and an empty history
InitObjects ==
    /\ current_process = 0
    /\ is_running = FALSE
    /\ should_cancel = FALSE
    /\ sudo_password = None
    /\ password_attempts = 0
    /\ pc = [t \in Threads |-> "idle"]
    /\ term_ret = [t \in Threads |-> "idle"]
    /\ frame = NoFrame
    /\ line_queue = [k \in Streams |-> <<>>]
    /\ rpc = [k \in Streams |-> "off"]
    /\ os = NoProcess
    /\ pipe = [k \in Streams |-> <<>>]
    /\ clock = 0
    /\ obs = NoObs
    /\ queue = <<>>
    /\ q_is_running = FALSE
    /\ current_index = 0
    /\ qframe = NoQueueFrame
    /\ command_history = <<>>
    /\ appended = <<>>
    /\ calls = [exec |-> 0, cancel |-> 0, add |-> 0, append |-> 0, clear |-> 0]

\* no pacman lock file: the commands of this specification do not mention pacman
Init == InitObjects /\ lock_exists = FALSE

\* the pacman lock file may exist
InitPolicy == InitObjects /\ lock_exists \in BOOLEAN

\* the environment calls execute_command(command, use_sudo, timeout), at
\* most max times
execute_command(Commands, UseSudo, TimeoutArgs, max) ==
    /\ qframe.pc = "idle"
    /\ calls.exec < max
    /\ calls' = [calls EXCEPT !.exec = @ + 1]
    /\ \E command \in Commands, use_sudo \in UseSudo, timeout \in TimeoutArgs :
         execute_command_call(command, use_sudo, timeout)
    /\ UNCHANGED <<queue_vars, history_vars>>

\* the statements of an execute_command call after its prologue
execute_steps(Scripts) ==
    \/ execute_L237 \/ execute_L238 \/ execute_L241(Scripts)
    \/ execute_L300 \/ execute_L305 \/ execute_L307
    \/ execute_L346 \/ execute_L351
    \/ execute_L373 \/ execute_L385 \/ execute_L386
    \/ terminate_process("main")
    \/ read_stdout \/ read_stderr
    \/ child_write("stdout") \/ child_write("stderr") \/ child_finish
    \/ Tick

cancel_steps ==
    cancel_current_command \/ cancel_C409 \/ cancel_C410 \/ terminate_process("cancel")

\* one executor, commands run one after another, a second thread that cancels
Next ==
    \/ execute_command(RunCommands, {DefaultUseSudo}, Timeouts, MaxCalls)
    \/ execute_steps(RunScripts)
    \/ cancel_steps

Spec == Init /\ [][Next]_vars

\* the statements of the thread that called execute_command
main_steps ==
    \/ execute_L237 \/ execute_L238 \/ execute_L241(RunScripts)
    \/ execute_L300 \/ execute_L305 \/ execute_L307
    \/ execute_L346 \/ execute_L351
    \/ execute_L373 \/ execute_L385 \/ execute_L386
    \/ terminate_process("main")

\* the same executor where every thread that can take a step is scheduled
\* in the end and time goes by: the calling thread (whose loop sleeps 0.01 s
\* per turn), the two daemon reader threads and a cancelling thread inside
\* cancel_current_command.  Nothing is asked of the child.
SpecLive ==
    /\ Init /\ [][Next]_vars
    /\ WF_vars(main_steps)
    /\ WF_vars(read_stdout)
    /\ WF_vars(read_stderr)
    /\ WF_vars(cancel_C409 \/ cancel_C410 \/ terminate_process("cancel"))
    /\ SF_vars(Tick)

\* the safety policy and the preparation of the command: one call, over every
\* input, on a new executor
NextPolicy ==
    \/ execute_command(PolicyCommands, {DefaultUseSudo}, Timeouts, 1)
    \/ execute_steps(PlainScripts)

SpecPolicy == InitPolicy /\ [][NextPolicy]_vars

\* a queue on a new executor: entries are added, the queue is run and run
\* again, and cancelled from another thread.  No call names a timeout and the
\* results' execution times are not looked at, so time stands still.
NextQueue ==
    \/ add_command(QueueCommands)
    \/ execute_queue \/ queue_Q509 \/ queue_Q513 \/ queue_Q516 \/ queue_Q526
    \/ cancel_queue
    \/ execute_L237 \/ execute_L238 \/ execute_L241(QueueScripts)
    \/ execute_L300 \/ execute_L305
    \/ execute_L346 \/ execute_L351
    \/ execute_L373 \/ execute_L385 \/ execute_L386
    \/ terminate_process("main")
    \/ reader_readline("stdout") \/ reader_readline("stderr")
    \/ child_finish
    \/ cancel_C409 \/ cancel_C410 \/ terminate_process("cancel")

SpecQueue == Init /\ [][NextQueue]_vars

\* the queue with a second caller of execute_queue
NextConcurrent == NextQueue \/ execute_queue_second

SpecConcurrent == Init /\ [][NextConcurrent]_vars

\* a queue whose entries may mention pacman, while the lock file may exist:
\* entries are added and the queue is run and run again; nothing is cancelled
NextBatch ==
    \/ add_command(BatchCommands)
    \/ execute_queue \/ queue_Q509 \/ queue_Q513 \/ queue_Q516 \/ queue_Q526
    \/ execute_L237 \/ execute_L238 \/ execute_L241(QueueScripts)
    \/ execute_L300 \/ execute_L305
    \/ execute_L346 \/ execute_L351
    \/ execute_L373 \/ execute_L385 \/ execute_L386
    \/ reader_readline("stdout") \/ reader_readline("stderr")
    \/ child_finish

SpecBatch == InitPolicy /\ [][NextBatch]_vars

\* another thread calls cancel_current_command() during the first execution
\* or after it, and not once the second has begun
cancel_first == calls.exec = 1 /\ cancel_current_command

\* two calls, one after the other, on one executor, without a timeout; a
\* cancel is requested during or after the first and none during the second
NextSecond ==
    \/ execute_command(RunCommands, {DefaultUseSudo}, {0}, 2)
    \/ execute_L237 \/ execute_L238 \/ execute_L241(SecondScripts)
    \/ execute_L300 \/ execute_L305
    \/ execute_L346 \/ execute_L351
    \/ execute_L373 \/ execute_L385 \/ execute_L386
    \/ terminate_process("main")
    \/ reader_readline("stdout") \/ reader_readline("stderr")
    \/ child_finish
    \/ cancel_first \/ cancel_C409 \/ cancel_C410 \/ terminate_process("cancel")

SpecSecond == Init /\ [][NextSecond]_vars

\* every way out of one call on a new executor: rejection, the lock check,
\* the password, a failed spawn, completion, timeout and cancellation from
\* another thread
NextPaths ==
    \/ execute_command(PathCommands, {DefaultUseSudo}, PathTimeouts, 1)
    \/ execute_steps(PathScripts)
    \/ cancel_steps

SpecPaths == InitPolicy /\ [][NextPaths]_vars

\* the output of one call: children that write several lines, no cancel
NextOutput ==
    \/ execute_command(RunCommands, {DefaultUseSudo}, Timeouts, MaxCalls)
    \/ execute_steps(OutputScripts)

SpecOutput == Init /\ [][NextOutput]_vars

\* elevation and the cached password: calls one after another on one
\* executor, with and without use_sudo, each spawned command exiting at once
NextSudo ==
    \/ execute_command(SudoCommands, BOOLEAN, {DefaultTimeout}, MaxSudoCalls)
    \/ execute_L237 \/ execute_L238 \/ execute_L241(SudoScripts)
    \/ execute_L300 \/ execute_L305
    \/ execute_L346 \/ execute_L351
    \/ execute_L373 \/ execute_L385 \/ execute_L386
    \/ reader_readline("stdout") \/ reader_readline("stderr")
    \/ child_finish

SpecSudo == Init /\ [][NextSudo]_vars

\* the history of the main window: entries are appended and the history is
\* cleared
NextHistory == add_command_to_history \/ clear_history

SpecHistory == Init /\ [][NextHistory]_vars

(***************************************************************************)
(* Properties                                                               *)
(***************************************************************************)
\* the result of a rejection by the safety policy (lines 173-180)
IsRejection(r) ==
    /\ r.status = "failed" /\ r.return_code = -1
    /\ r.stdout = <<>> /\ r.stderr = MsgBlocked /\ r.execution_time = 0

\* command contains pattern in some letter-case
ContainsAnyCase(command, pattern) == Contains(Lower(command), Lower(pattern))

Denylisted(command) ==
    \E k \in DOMAIN dangerous_patterns : ContainsAnyCase(command, dangerous_patterns[k])

\* C1: a command that contains a pattern of the denylist, in any letter-case,
\* is rejected: the call returns the rejection result, no child process is
\* spawned and command_started is not emitted.
C1_DenylistedIsRejected ==
    (obs.called /\ Denylisted(obs.command)) =>
        /\ obs.started = 0
        /\ obs.popen_calls = 0 /\ obs.spawned = 0
        /\ obs.returned => (obs.raised = "none" /\ IsRejection(obs.result))

\* the allowlist of the specification (section 4.1, step 5): the package
\* manager, the elevation helper, alternate package managers and helpers, the
\* mirror-ranking tool, the service manager, a few coreutils
Allowlist ==
    { <<"p","a","c","m","a","n">>, <<"s","u","d","o">>, <<"y","a","y">>,
      <<"p","a","r","u">>, <<"r","e","f","l","e","c","t","o","r">>,
      <<"s","y","s","t","e","m","c","t","l">>, <<"e","c","h","o">>,
      <<"l","s">>, <<"c","a","t">> }

RECURSIVE Basename(_)
\* the token without its path prefix
Basename(token) ==
    IF \E i \in DOMAIN token : token[i] = "/"
    THEN Basename(SubSeq(token, (CHOOSE i \in DOMAIN token : token[i] = "/") + 1, Len(token)))
    ELSE token

\* the base executable of the specification (section 4.1, steps 3-4): the first
\* token, or the second one when the first is the elevation helper
BaseExecutable(command) ==
    LET tokens == Split(command)
    IN  IF Len(tokens) >= 2 /\ tokens[1] = SudoToken THEN Basename(tokens[2])
        ELSE Basename(tokens[1])

\* C2: a command that is empty after trimming is rejected without an attempt
\* to spawn: no Popen call and no command_started signal.
C2_EmptyIsRejected ==
    (obs.called /\ Strip(obs.command) = <<>>) =>
        /\ obs.started = 0
        /\ obs.popen_calls = 0 /\ obs.spawned = 0
        /\ obs.returned => (obs.raised = "none" /\ IsRejection(obs.result))

\* C3: a command whose base executable is not in the allowlist is rejected
\* before anything is spawned: no Popen call is made for it and no child
\* exists; one whose base executable is in the allowlist passes the
\* validation.  (Stated for the commands that are not empty and contain no
\* denylisted pattern, which the two rules before this one decide.)
C3_AllowlistDecides ==
    (obs.called /\ Split(obs.command) /= <<>> /\ ~ Denylisted(obs.command)) =>
        IF BaseExecutable(obs.command) \in Allowlist
        THEN ~ IsRejection(obs.result)
        ELSE obs.popen_calls = 0 /\ obs.spawned = 0

\* the lines of stream k that the supervising loop has dequeued and forwarded
RECURSIVE SinkLines(_, _)
SinkLines(sink, k) ==
    IF sink = <<>> THEN <<>>
    ELSE IF Head(sink)[1] = k THEN <<Head(sink)[2]>> \o SinkLines(Tail(sink), k)
    ELSE SinkLines(Tail(sink), k)

\* the call has returned a result because the timeout was exceeded
TimedOut == obs.returned /\ obs.raised = "none" /\ obs.saw = "timeout"

Stopped == obs.returned /\ obs.saw \in {"timeout", "cancel"}

\* C5: after execute_command has returned because of a timeout or a
\* cancellation, no process of the child's process group is running, neither
\* the child nor a descendant.
C5_GroupIsGoneAfterStop ==
    Stopped => (os.child /= "run" /\ os.desc /= "run")

\* C6: a cancel request made while execute_command holds is_running and the
\* child it runs has not exited (or is not spawned yet) makes the call return
\* a result with status Cancelled, whatever the interleaving.  (A call whose
\* loop saw the timeout first is left to C7.)
C6_CancelWhileRunningIsCancelled ==
    (/\ obs.returned /\ obs.spawned = 1 /\ obs.saw /= "timeout"
     /\ \/ obs.cancel_at \in {"reset", "spawn"}
        \/ obs.cancel_at = "loop" /\ obs.cancel_child = "run") =>
        obs.result.status = "cancelled"

\* C7: the status is decided by what the supervising loop observed first: a
\* loop that ended normally before any cancel request, its child having
\* exited, gives Success or Failed by the exit code (also when a cancel
\* request follows before the return), a loop ended by a cancel request gives
\* Cancelled, a loop ended by the timeout gives the timeout result.
C7_FirstObservedDecides ==
    (obs.returned /\ obs.raised = "none") =>
        /\ (/\ obs.saw = "normal"
            /\ obs.cancel_at = "none" \/ (obs.cancel_at = "after" /\ obs.cancel_child = "dead")) =>
              obs.result.status = IF obs.result.return_code = 0 THEN "success" ELSE "failed"
        /\ obs.saw = "cancel" => obs.result.status = "cancelled"
        /\ obs.saw = "timeout" => EndsWith(obs.result.stderr, MsgTimeout)

\* C8: the history holds at most HistoryCap entries; they are the most recent
\* min(n, HistoryCap) of the n entries appended since the history was last
\* empty, in the order of their insertion; the newest appended entry is the
\* last one of the history.
C8_HistoryIsLastAppended ==
    LET n == Len(appended)
        m == IF n < HistoryCap THEN n ELSE HistoryCap
    IN  /\ Len(command_history) <= HistoryCap
        /\ Len(command_history) = m
        /\ \A j \in 1..m : command_history[j] = appended[n - m + j]
        /\ n > 0 => command_history[Len(command_history)] = appended[n]

\* more entries than the cap have been appended and the oldest are gone
C8_Witness ==
    /\ Len(appended) = HistoryCap + 2
    /\ Len(command_history) = HistoryCap
    /\ Head(command_history) = appended[3]

\* execute_queue has returned True after an entry's result was not SUCCESS
FailedFast == qframe.pc = "idle" /\ qframe.ret = "True" /\ qframe.failed_at /= 0

\* the run of execute_queue has called execute_command for entry j
Executed(f, j) == \E k \in DOMAIN f.executed : f.executed[k] = j

\* C9, as claimed: when execute_queue returns after an entry whose result is
\* not SUCCESS, no later entry has been executed by it, and every later
\* entry has status 'pending' and result None.
C9_LaterEntriesStayPending ==
    FailedFast =>
        \A j \in DOMAIN queue :
            j > qframe.failed_at =>
                /\ ~ Executed(qframe, j)
                /\ queue[j].status = "pending" /\ queue[j].result = None

\* C9, amended: a run of execute_queue executes no entry after the first one
\* whose result is not SUCCESS, and no step changes an entry that the run in
\* progress has not executed: every later entry has, when execute_queue
\* returns, the status and the result it had when the run began.
C9_LaterEntriesAreKept ==
    /\ [](qframe.failed_at /= 0 =>
            \A j \in DOMAIN queue : Executed(qframe, j) => j <= qframe.failed_at)
    /\ [][\A j \in DOMAIN queue : ~ Executed(qframe', j) => queue'[j] = queue[j]]_vars

\* a second run has stopped at its first entry, and the entry after it has
\* kept the 'completed' of the first run
C9_Witness ==
    /\ FailedFast /\ qframe.failed_at = 1
    /\ Len(queue) = 2 /\ queue[2].status = "completed" /\ queue[2].result /= None

\* the number of entries of the queue with one of the statuses
NumberWith(statuses) == Cardinality({j \in DOMAIN queue : queue[j].status \in statuses})

\* C10: in every state get_progress returns (c, t) with t the number of
\* entries and c the number of entries that are 'completed' or 'failed';
\* every other entry is 'pending' or 'running' and is not counted, and
\* 0 <= c <= t.
C10_ProgressCountsFinished ==
    LET c == get_progress[1]
        t == get_progress[2]
    IN  /\ t = Len(queue)
        /\ c = NumberWith({"completed", "failed"})
        /\ c + NumberWith({"pending", "running"}) = t
        /\ 0 <= c /\ c <= t

\* a run in progress: one entry done, one running, and (1, 2) reported
C10_Witness ==
    /\ qframe.pc = "Q516" /\ Len(queue) = 2
    /\ queue[1].status = "completed" /\ queue[2].status = "running"
    /\ get_progress = <<1, 2>>

\* C11: once cancel_queue has been called during a run, no entry goes from
\* 'pending' to 'running'; and the entry that was being executed when the
\* call reached the executor is cancelled: the run executes no entry after
\* it and its result, unless the spawn itself failed, has status Cancelled.
C11_CancelQueueCancelsCurrent ==
    /\ [][(qframe.pc /= "idle" /\ ~ q_is_running) =>
            \A j \in DOMAIN queue :
                ~ (queue[j].status = "pending" /\ queue'[j].status = "running")]_vars
    /\ [](qframe.cancel_cur > 0 =>
            /\ \A j \in DOMAIN queue : Executed(qframe, j) => j <= qframe.cancel_cur
            /\ (/\ qframe.i > qframe.cancel_cur
                /\ ~ StartsWith(queue[qframe.cancel_cur].result.stderr, MsgExecutionError)) =>
                   queue[qframe.cancel_cur].result.status = "cancelled")

\* C12: every call of execute_command that has ended has returned a
\* CommandResult and has raised nothing; when the spawn failed (the executable
\* was not found, or there was nothing to execute) the result is Failed and
\* carries the error text.
C12_ReturnsAResultNeverRaises ==
    (obs.called /\ obs.returned) =>
        /\ obs.raised = "none"
        /\ obs.result /= NoResult
        /\ (obs.popen_calls = 1 /\ obs.spawned = 0) =>
              /\ obs.result.status = "failed"
              /\ StartsWith(obs.result.stderr, MsgExecutionError)
              /\ Len(obs.result.stderr) > Len(MsgExecutionError)

\* C13: while a sudo password is cached, no line forwarded to the output
\* sink (output_received, output_callback) contains the cached password.
C13_NoCredentialInSink ==
    sudo_password /= None =>
        \A i \in DOMAIN obs.sink : ~ Contains(obs.sink[i][2], sudo_password)

\* the first whitespace-separated token of a command, <<>> if it has none
FirstToken(command) ==
    IF Split(command) = <<>> THEN <<>> ELSE Head(Split(command))

\* the argument lists that run the tokens elevated: 'sudo', with or without
\* the option that makes it read the password from its input, and the tokens
Elevated(tokens) ==
    { <<SudoToken>> \o tokens, <<SudoToken, <<"-","S">> >> \o tokens }

\* C14: the argument list given to Popen begins with 'sudo' exactly when the
\* command's first token is 'sudo' or use_sudo is true; a command whose first
\* token is 'sudo' is spawned elevated with its remaining tokens unchanged,
\* any other command is spawned as its tokens, elevated when use_sudo is true.
C14_ElevatedExactlyWhenAsked ==
    obs.spawned = 1 =>
        /\ Head(obs.argv) = SudoToken <=>
              (FirstToken(obs.command) = SudoToken \/ obs.use_sudo)
        /\ IF FirstToken(obs.command) = SudoToken
           THEN obs.argv \in Elevated(Tail(Split(obs.command)))
           ELSE IF obs.use_sudo THEN obs.argv \in Elevated(Split(obs.command))
           ELSE obs.argv = Split(obs.command)

\* the step is a call of execute_command that validated a password
ValidatingCall == calls'.exec = calls.exec + 1 /\ obs'.validated /= "none"

\* C15: a call whose validation of the password fails adds one to
\* password_attempts (counted from 0 when the password came from the
\* prompt); a cached password is handed to the validation without a prompt
\* only while password_attempts < max_password_attempts; and once
\* password_attempts has reached max_password_attempts no password is cached.
C15_AttemptsAreCounted ==
    /\ [][ValidatingCall =>
            /\ obs'.validated /= "ok" =>
                  password_attempts' = (IF obs'.prompted THEN 0 ELSE password_attempts) + 1
            /\ ~ obs'.prompted =>
                  sudo_password /= None /\ password_attempts < max_password_attempts]_vars
    /\ [](password_attempts >= max_password_attempts => sudo_password = None)

\* C16: a step deletes the pacman lock file only if the caller has answered
\* Yes and no pacman process is running; and a call that mentions pacman and
\* finds the lock file while a pacman process is running spawns nothing,
\* leaves the lock file and returns a Locked result.
C16_LockRemovedOnlyWhenStale ==
    /\ [][(lock_exists /\ ~ lock_exists') =>
            (obs'.lock_seen.answer = "yes" /\ ~ obs'.lock_seen.pacman_running)]_vars
    /\ []((obs.called /\ obs.lock_seen.found /\ obs.lock_seen.pacman_running) =>
            /\ lock_exists
            /\ obs.popen_calls = 0
            /\ obs.returned /\ obs.raised = "none" /\ obs.result.status = "locked")

\* C17: a call that mentions pacman and finds the lock file, when the caller
\* declines the removal or there is no application to ask, returns a Locked
\* result with return code -1 and the message that the database is locked,
\* spawns nothing and leaves the lock file, the cached password, is_running
\* and current_process as they were.
C17_DeclinedIsLocked ==
    (obs.called /\ obs.lock_seen.found /\ obs.lock_seen.answer \in {"no", "none"}) =>
        /\ obs.returned /\ obs.raised = "none"
        /\ obs.result.status = "locked" /\ obs.result.return_code = -1
        /\ obs.result.stderr = MsgLockDeclined
        /\ obs.popen_calls = 0
        /\ lock_exists
        /\ sudo_password = None /\ password_attempts = 0
        /\ ~ is_running /\ current_process = 0

\* C18: the timeout is measured from the spawn: when the supervising loop
\* finds the timeout exceeded, the child has run for more than timeout
\* seconds, whatever time the call spent before the spawn.
C18_TimeoutCountsFromSpawn ==
    [][(obs.saw = "none" /\ obs'.saw = "timeout") =>
          clock - obs.spawn_clock > frame.timeout]_vars

Finished(k) == IF k = "stdout" THEN frame.stdout_finished ELSE frame.stderr_finished

\* C20: each reader puts one sentinel on its queue, after every line it has
\* put there, and the call reaches the blocking wait of line 346 only after
\* the supervising loop has received the sentinel of both readers.
C20_WaitAfterBothSentinels ==
    /\ \A k \in Streams :
          /\ \A i \in DOMAIN line_queue[k] :
                line_queue[k][i].eof => i = Len(line_queue[k])
          /\ rpc[k] = "done" =>
                \/ Finished(k) /\ line_queue[k] = <<>>
                \/ ~ Finished(k) /\ line_queue[k] /= <<>>
                                 /\ line_queue[k][Len(line_queue[k])].eof
    /\ pc["main"] = "L346" => \A k \in Streams : Finished(k)

\* the lines of a script's stream as the reader puts them: line.rstrip()
Stripped(lines) == [i \in DOMAIN lines |-> RStrip(lines[i])]

\* s is a beginning of t
IsPrefix(s, t) == Len(s) <= Len(t) /\ SubSeq(t, 1, Len(s)) = s

\* the lines that the call in progress has forwarded and kept for stream k
Kept(k) == IF k = "stdout" THEN frame.stdout_lines ELSE frame.stderr_lines

\* the lines that the spawned child writes to stream k
Written(k) == IF k = "stdout" THEN os.script.out ELSE os.script.err

\* a call that spawned a child has returned a result
ReturnedAfterSpawn == obs.returned /\ obs.raised = "none" /\ obs.spawned = 1

\* C21, as claimed: of a call that spawned a child, result.stdout and
\* result.stderr are the newline-join of exactly the lines forwarded to the
\* sink with that kind.
C21_ResultIsJoinOfForwarded ==
    ReturnedAfterSpawn =>
        /\ obs.result.stdout = Join(SinkLines(obs.sink, "stdout"))
        /\ obs.result.stderr = Join(SinkLines(obs.sink, "stderr"))

\* C21, amended: for each stream the lines forwarded to the sink are the
\* lines kept for the result, in the order in which the child wrote them;
\* the result's stdout is their newline-join, and its stderr is their
\* newline-join, followed by the timeout marker when the call ended by
\* timeout.
C21_ForwardedIsKeptInOrder ==
    /\ obs.spawned = 1 =>
          \A k \in Streams :
             /\ SinkLines(obs.sink, k) = Kept(k)
             /\ IsPrefix(Kept(k), Stripped(Written(k)))
    /\ ReturnedAfterSpawn =>
          /\ obs.result.stdout = Join(SinkLines(obs.sink, "stdout"))
          /\ obs.result.stderr =
                Join(SinkLines(obs.sink, "stderr"))
                   \o (IF obs.saw = "timeout" THEN MsgTimeout ELSE <<>>)

\* a call has returned the two stdout lines and the stderr line of its child
C21_Witness ==
    /\ ReturnedAfterSpawn /\ obs.saw = "normal"
    /\ Len(SinkLines(obs.sink, "stdout")) = 2
    /\ Len(SinkLines(obs.sink, "stderr")) = 1
    /\ obs.result.stdout = <<"b", "\n", "a">>

\* the statuses of a result that is not SUCCESS
NotSuccess == {"failed", "cancelled", "needs_password", "locked"}

\* C22: a step that lengthens the queue appends one entry with status
\* 'pending' and result None and changes no other entry; a run executes the
\* entries in the order of the queue; at most one entry is 'running'; an
\* entry becomes 'running' from 'pending' only, and leaves 'running' for
\* 'completed' with a SUCCESS result or for 'failed' with another result; and
\* when a run has ended every entry it has executed is 'completed' or
\* 'failed' and has its result.
C22_EntriesMoveInOrder ==
    /\ [][/\ Len(queue') /= Len(queue) =>
                /\ Len(queue') = Len(queue) + 1
                /\ SubSeq(queue', 1, Len(queue)) = queue
                /\ queue'[Len(queue')].status = "pending"
                /\ queue'[Len(queue')].result = None
          /\ \A j \in DOMAIN queue :
                /\ (queue[j].status /= "running" /\ queue'[j].status = "running") =>
                      queue[j].status = "pending"
                /\ (queue[j].status = "running" /\ queue'[j].status /= "running") =>
                      \/ queue'[j].status = "completed" /\ queue'[j].result.status = "success"
                      \/ queue'[j].status = "failed" /\ queue'[j].result.status \in NotSuccess
                /\ (queue[j].status /= "running" /\ queue'[j].status /= "running") =>
                      queue'[j] = queue[j]]_vars
    /\ [](/\ \A n \in DOMAIN qframe.executed : qframe.executed[n] = n
          /\ Cardinality({j \in DOMAIN queue : queue[j].status = "running"}) <= 1
          /\ qframe.ret /= "none" =>
                \A j \in DOMAIN queue :
                   Executed(qframe, j) => /\ queue[j].status \in {"completed", "failed"}
                                          /\ queue[j].result /= None)

\* a call has returned after its loop received both sentinels, with no
\* timeout and no cancellation
CompletedNormally ==
    /\ ReturnedAfterSpawn /\ obs.saw = "normal"
    /\ obs.result.status \in {"success", "failed"}

C24_IdleMeansReset ==
    pc["main"] = "idle" => (~ is_running /\ current_process = 0)

\* a call that was cancelled while its child ran has returned
C24_Witness ==
    /\ pc["main"] = "idle" /\ obs.returned /\ obs.spawned = 1
    /\ obs.result.status = "cancelled"
    /\ ~ is_running /\ current_process = 0

\* C25: a call that has emitted command_started has, when it returns, emitted
\* command_finished once, with the result it returns; and command_finished
\* is emitted only after command_started.
C25_StartedThenFinishedOnce ==
    /\ (obs.returned /\ obs.started = 1) => obs.finished = <<obs.result>>
    /\ obs.finished /= <<>> => (obs.started = 1 /\ Len(obs.finished) = 1)

\* C26: a cancel requested during or after the first execution, with none
\* requested during the second, leaves the second alone: the executor sends
\* no signal to its child and its result is not Cancelled.
C26_CancelStaysWithItsCall ==
    calls.exec = 2 =>
        /\ os.child = "dead" => os.code = os.script.code
        /\ (obs.returned /\ obs.raised = "none") => obs.result.status /= "cancelled"

\* C27: when cancel_current_command() finds is_running False at line 409 it
\* returns at once and changes nothing: should_cancel, current_process, the
\* cached password and the queue entries keep their values and no process is
\* signalled.
C27_CancelWhenIdleChangesNothing ==
    [][(pc["cancel"] = "C409" /\ pc'["cancel"] /= "C409" /\ ~ is_running)
        => /\ pc'["cancel"] = "idle"
           /\ should_cancel' = should_cancel
           /\ current_process' = current_process
           /\ sudo_password' = sudo_password
           /\ password_attempts' = password_attempts
           /\ queue' = queue
           /\ os' = os]_vars

\* a cancellation has been requested and has returned on an executor that
\* never ran a command, with a command in the queue
C27_Witness ==
    /\ calls.cancel >= 1
    /\ calls.exec = 0
    /\ pc["cancel"] = "idle"
    /\ queue /= <<>>
    /\ ~ should_cancel
    /\ os.child = "none"

\* C28: once a run of execute_queue has ended, by returning or by an error
\* of execute_command escaping from it, the queue's is_running flag is False
\* and no entry has the status 'running'.
C28_EndedRunLeavesQueueIdle ==
    (qframe.pc = "idle" /\ qframe.ret \in {"True", "raised"}) =>
        /\ ~ q_is_running
        /\ \A j \in 1..Len(queue) : queue[j].status /= "running"

\* C29: an execute_queue() call made while a run of the queue is in progress
\* returns False and changes nothing: the entries, current_index and
\* is_running keep their values and the call executes no command, so that
\* one run at most is executing commands of the queue.
C29_SecondCallIsRefused ==
    [][(qframe.pc /= "idle" /\ pc'["second"] /= pc["second"])
        => /\ pc'["second"] = "False"
           /\ queue' = queue
           /\ q_is_running' = q_is_running
           /\ current_index' = current_index
           /\ calls' = calls]_vars

\* C30: a call with a timeout other than 0 that has spawned its child
\* returns in the end, whatever the child does, when the threads are
\* scheduled fairly.
C30_CallWithTimeoutReturns ==
    (obs.spawned = 1 /\ frame.timeout /= 0 /\ ~ obs.returned) ~> obs.returned

=============================================================================
